---- MODULE Spec2Model ----
(***************************************************************************)
(* Model of the camera capture session of src/src/camera-api.ts            *)
(* (class CameraAPI) running on a single-threaded timer loop.              *)
(*                                                                         *)
(* Every public method and every timer callback of CameraAPI is one        *)
(* action.  Methods are written as operators on a record of the object's   *)
(* fields so that a method calling another method (selectCamera, dispose   *)
(* and captureFrame all call stopStream) is the composition of the two     *)
(* operators.  The native camera (nokhwa-node Camera) is the environment:  *)
(* each of its calls may succeed or throw, chosen with \E.                 *)
(*                                                                         *)
(* Time is in milliseconds.  A pending timer carries the time remaining    *)
(* until it is due; Advance lets time pass, FireTimer runs the callback    *)
(* of the timer that is due first.                                         *)
(***************************************************************************)
EXTENDS Integers, Sequences, FiniteSets, TLC

\* ---------------------------------------------------------------- bounds
MaxCalls == 3         \* calls of the public methods made over a run
NumCallbacks == 2     \* distinct frame callbacks a caller may pass
MaxErrors == 11       \* cap on consecutiveErrors (the code's counter is unbounded)

\* ------------------------------------------------------ program constants
maxConsecutiveErrors == 10
StabilizationDelay == 1000
StopGrace == 50
DefaultFps == 30
QueriedFps == 20

NULL == 0
\* frame rates the device may report
FrameRates == {QueriedFps}
Callbacks == 1..NumCallbacks
DeviceList == {"0", "1"}
\* time one capture cycle may take (Date.now() - now in the capture closure)
CycleTimes == {0}

Max(a, b) == IF a >= b THEN a ELSE b

VARIABLES
    cameras,            \* CameraAPI.cameras (cached device list)
    activeCamera,       \* CameraAPI.activeCamera: a handle or NULL
    isStreaming,        \* CameraAPI.isStreaming
    frameCallback,      \* CameraAPI.frameCallback: a callback or NULL
    streamInterval,     \* CameraAPI.streamInterval: "null" or "set"
    targetFps,          \* CameraAPI.targetFps
    consecutiveErrors,  \* CameraAPI.consecutiveErrors
    disposed,           \* CameraAPI.disposed
    captureInProgress,  \* CameraAPI.captureInProgress
    timers,             \* pending setTimeout timers, in creation order
    devOpen,            \* handles whose device stream is open
    handlesMade,        \* number of Camera objects constructed so far
    last,               \* what the last handler did (observation only)
    stoppedSince,       \* a stopStream() returned and no startStream() since
    disposedHandle,     \* the handle dispose() found streaming with its device
                        \* stream open, until the device's stopStream is called on it
    calls,              \* API calls made so far
    cfgCameraActive,    \* ConfigManager state.cameraActive, as WebcamManager sets it
    cfgStreaming,       \* ConfigManager state.isStreaming, as WebcamManager sets it
    selector,           \* a call of selectBestCameraFormat: its arguments and
                        \* what it returned, left behind and made the device do
    converter,          \* a call of convertFrameToRGBABuffer: its arguments and
                        \* the buffer it returned
    decoder,             \* a captured frame on its way to the frame callback
    errlog,              \* the capture loop's error log: clock, throttle stamp, entries written
    window              \* the WindowManager: window state, bounds, visibility, saved bounds

progVars == <<cameras, activeCamera, isStreaming, frameCallback, streamInterval,
              targetFps, consecutiveErrors, disposed, captureInProgress>>
envVars == <<timers, devOpen, handlesMade>>
vars == <<cameras, activeCamera, isStreaming, frameCallback, streamInterval,
          targetFps, consecutiveErrors, disposed, captureInProgress,
          timers, devOpen, handlesMade, last, stoppedSince, disposedHandle, calls,
          cfgCameraActive, cfgStreaming, selector, converter, decoder, errlog, window>>
mgrVars == <<cfgCameraActive, cfgStreaming>>
sessionVars == <<cameras, activeCamera, isStreaming, frameCallback, streamInterval,
                 targetFps, consecutiveErrors, disposed, captureInProgress,
                 timers, devOpen, handlesMade, last, stoppedSince, disposedHandle,
                 calls, cfgCameraActive, cfgStreaming>>
pureVars == <<selector, converter, decoder, errlog, window>>

\* The object's fields, the timer queue and the device, as one record, plus
\* what the running handler has done so far:
\* ret:      the handler's return value ("none" for void)
\* cb/fmt/data: the frame callback invocation (cb = NULL: not invoked)
\* devOps:   device stopStream/captureFrame calls made, each with the handle it
\*           was made on, the handle that was active when the call was
\*           scheduled, and captureInProgress at the time of the call
\* selfStop: captureFrame stopped the stream after too many errors
\* stopCalled: stopStream() was called (directly or by another method)
\* replaced: the handle selectCamera replaced (NULL: none)
\* exc:      an exception is propagating out of the statement just run
\* took:     the duration of the cycle the capture closure measured when it
\*           scheduled the next one (-1: it scheduled none)
Session ==
    [cameras |-> cameras, activeCamera |-> activeCamera, isStreaming |-> isStreaming,
     frameCallback |-> frameCallback, streamInterval |-> streamInterval,
     targetFps |-> targetFps, consecutiveErrors |-> consecutiveErrors,
     disposed |-> disposed, captureInProgress |-> captureInProgress,
     timers |-> timers, devOpen |-> devOpen,
     ret |-> "none", cb |-> NULL, fmt |-> "none", data |-> "none",
     devOps |-> <<>>, selfStop |-> FALSE, stopCalled |-> FALSE,
     replaced |-> NULL, exc |-> FALSE, took |-> -1]

Event(op, s) ==
    [op |-> op, ret |-> s.ret, cb |-> s.cb, devOps |-> s.devOps,
     selfStop |-> s.selfStop, replaced |-> s.replaced, exc |-> s.exc,
     took |-> s.took]

DevOp(s, op, h, sched) ==
    [op |-> op, h |-> h, sched |-> sched, cip |-> s.captureInProgress]

\* ------------------------------------------------------------- timers
\* setTimeout(fn, delay): the new timer goes last in creation order.
\* sched remembers the handle that was active when a deferred close was
\* scheduled (observation only).
SetTimeout(s, kind, delay) ==
    [s EXCEPT !.timers = Append(@, [kind |-> kind, rem |-> delay, ref |-> FALSE,
                                    sched |-> IF kind = "close" THEN s.activeCamera
                                              ELSE NULL])]

\* this.streamInterval = setTimeout(capture, delay): streamInterval now
\* refers to the new timer and to no other.
SetStreamInterval(s, delay) ==
    LET unref == [i \in 1..Len(s.timers) |-> [s.timers[i] EXCEPT !.ref = FALSE]]
    IN  [s EXCEPT !.timers = Append(unref, [kind |-> "capture", rem |-> delay,
                                            ref |-> TRUE, sched |-> NULL]),
                  !.streamInterval = "set"]

\* clearTimeout(this.streamInterval): removes the timer streamInterval refers
\* to if it is still pending; a handle to a timer that already fired is inert.
ClearStreamInterval(s) ==
    [s EXCEPT !.timers = SelectSeq(@, LAMBDA t : ~t.ref)]

\* time d passes for every pending timer
Elapse(ts, d) == [i \in 1..Len(ts) |-> [ts[i] EXCEPT !.rem = @ - d]]

RemoveAt(ts, i) == [j \in 1..(Len(ts) - 1) |-> IF j < i THEN ts[j] ELSE ts[j + 1]]

\* The timer the event loop runs next: due, earliest deadline, and among equal
\* deadlines the one created first.
IsNextDue(ts, i) ==
    /\ ts[i].rem <= 0
    /\ \A j \in 1..Len(ts) : /\ ts[j].rem >= ts[i].rem
                             /\ (ts[j].rem = ts[i].rem => j >= i)

\* ------------------------------------------------------------ stopStream
\* stopStream that clears the schedule but leaves isStreaming set
stopStream_KeepsStreaming(s) ==
    IF ~s.isStreaming /\ s.streamInterval = "null"
    THEN [s EXCEPT !.stopCalled = TRUE]
    ELSE LET s1 == [s EXCEPT !.stopCalled = TRUE]
             s2 == IF s1.streamInterval # "null"
                   THEN [ClearStreamInterval(s1) EXCEPT !.streamInterval = "null"]
                   ELSE s1
         IN  SetTimeout(s2, "close", StopGrace)

\* camera-api.ts:215-244, the synchronous part
stopStream(s) ==
    IF ~s.isStreaming /\ s.streamInterval = "null"
    THEN [s EXCEPT !.stopCalled = TRUE]
    ELSE LET s1 == [s EXCEPT !.isStreaming = FALSE, !.stopCalled = TRUE]
             s2 == IF s1.streamInterval # "null"
                   THEN [ClearStreamInterval(s1) EXCEPT !.streamInterval = "null"]
                   ELSE s1
         IN  SetTimeout(s2, "close", StopGrace)

\* camera-api.ts:230-243, the deferred part; probe/stop: outcome of the
\* device's isStreamOpen() and stopStream() ("ok" or "throw")
deferredClose(s, sched, probe, stop) ==
    LET h == s.activeCamera
        s1 == IF h # NULL /\ probe = "ok" /\ h \in s.devOpen
              THEN [s EXCEPT !.devOps = Append(@, DevOp(s, "stop", h, sched)),
                             !.devOpen = IF stop = "ok" THEN @ \ {h} ELSE @]
              ELSE s
    IN  [s1 EXCEPT !.frameCallback = NULL]

\* ---------------------------------------------------------- captureFrame
\* What the device and the decoders may answer in one capture cycle:
\* probe: isStreamOpen() returns or throws
\* res:   captureFrame() returns a frame of len bytes or throws
\* fmt:   cameraFormat().format, or "throw"
\* dec:   the decoder returns RGB data ("ok"), nothing ("null") or throws
\* cbres: the frame callback returns or throws
FrameW == 2
FrameH == 2
MinMjpegSize == 10
FrameLens == {0, 5, FrameW * FrameH * 3, FrameW * FrameH * 4, FrameW * FrameH * 4 + 1}
EmptyFrame == [probe |-> "ok", res |-> "frame", len |-> 0, fmt |-> "MJPEG",
               dec |-> "ok", cbres |-> "ok"]
CaptureOutcomes ==
    {[EmptyFrame EXCEPT !.probe = "throw"], [EmptyFrame EXCEPT !.res = "throw"]}
    \cup {[EmptyFrame EXCEPT !.len = l, !.fmt = f, !.dec = d, !.cbres = c] :
            l \in FrameLens, f \in {"MJPEG", "YUYV", "NV12", "throw"},
            d \in {"ok", "null", "throw"}, c \in {"ok", "throw"}}
\* the outcomes the capture loop is run with: one per path through the cycle
CycleOutcomes ==
    {o \in CaptureOutcomes :
        /\ o.fmt = "MJPEG"
        /\ o.len \in {0, FrameW * FrameH * 4, FrameW * FrameH * 4 + 1}
        /\ (o.len # FrameW * FrameH * 4 + 1 => o.dec = "ok")
        /\ o.dec # "null"
        /\ (o.len = 0 => o.cbres = "ok")}

\* a tagging that trusts the format the device declares, whatever the length
Decoded_TrustsDeclared(o) ==
    LET declared == IF o.fmt = "throw" THEN "RGBA" ELSE o.fmt
        formatStr == declared
        decodes == \/ formatStr = "MJPEG" /\ o.len >= MinMjpegSize /\ o.dec = "ok"
                   \/ formatStr = "YUYV" /\ o.dec = "ok"
    IN  IF decodes THEN [fmt |-> "RGB", data |-> "decoded"]
        ELSE [fmt |-> formatStr, data |-> "raw"]

\* camera-api.ts:291-337: the format tag and the data handed to the callback
Decoded(o) ==
    LET declared == IF o.fmt = "throw" THEN "RGBA" ELSE o.fmt
        formatStr == IF o.len = FrameW * FrameH * 4 THEN "RGBA"
                     ELSE IF o.len = FrameW * FrameH * 3 THEN "RGB"
                     ELSE declared
        decodes == \/ formatStr = "MJPEG" /\ o.len >= MinMjpegSize /\ o.dec = "ok"
                   \/ formatStr = "YUYV" /\ o.dec = "ok"
    IN  IF decodes THEN [fmt |-> "RGB", data |-> "decoded"]
        ELSE [fmt |-> formatStr, data |-> "raw"]

\* decoder: the outcome o of the device and decoder calls of one cycle that
\* captured a frame, and the tag and data its frame callback was given
IdleDecoder == [phase |-> "idle", o |-> EmptyFrame, fmt |-> "none", data |-> "none"]

\* a catch block that counts the error and throws it again
captureCatch_Rethrows(s) ==
    LET s1 == [s EXCEPT !.consecutiveErrors = @ + 1]
    IN  IF s1.consecutiveErrors >= maxConsecutiveErrors
        THEN [stopStream(s1) EXCEPT !.selfStop = TRUE]
        ELSE s1

\* camera-api.ts:348-356, the catch block: the exception ends here
captureCatch(s) ==
    LET s1 == [s EXCEPT !.consecutiveErrors = @ + 1, !.exc = FALSE]
    IN  IF s1.consecutiveErrors >= maxConsecutiveErrors
        THEN [stopStream(s1) EXCEPT !.selfStop = TRUE]
        ELSE s1

\* captureFrame without its finally block
captureFinally_NoReset(s) == s

\* camera-api.ts:357-359, the finally block
captureFinally(s) == [s EXCEPT !.captureInProgress = FALSE]

\* camera-api.ts:277-347, the try block; the device's captureFrame() and
\* the frame callback throw out of it, a decoder that throws is caught inside
\* it (camera-api.ts:315-337, see Decoded)
captureTry(s, o) ==
    LET s1 == [s EXCEPT !.devOps = Append(@, DevOp(s, "capture", s.activeCamera,
                                                   s.activeCamera))]
    IN  IF o.res = "throw" THEN [s1 EXCEPT !.exc = TRUE]
        ELSE IF o.len = 0 THEN [s1 EXCEPT !.captureInProgress = FALSE]
        ELSE LET s2 == [s1 EXCEPT !.consecutiveErrors = 0]
                 d == Decoded(o)
             IN  IF s2.isStreaming /\ ~s2.disposed /\ s2.frameCallback # NULL
                 THEN LET s3 == [s2 EXCEPT !.cb = s2.frameCallback,
                                           !.fmt = d.fmt, !.data = d.data]
                      IN  IF o.cbres = "throw" THEN [s3 EXCEPT !.exc = TRUE] ELSE s3
                 ELSE s2

\* camera-api.ts:249-360; isStreamOpen() is probed inside its own try/catch
\* (camera-api.ts:262-270)
captureFrame(s, o) ==
    IF s.disposed \/ s.captureInProgress THEN s
    ELSE IF s.activeCamera = NULL \/ ~s.isStreaming \/ s.frameCallback = NULL THEN s
    ELSE IF o.probe = "throw" \/ s.activeCamera \notin s.devOpen THEN s
    ELSE LET r == captureTry([s EXCEPT !.captureInProgress = TRUE], o)
         IN  captureFinally(IF r.exc THEN captureCatch(r) ELSE r)

\* the delay without its lower limit
NextFrameDelay_NoFloor(fps, took) == (1000 \div fps) - took

\* camera-api.ts:177,184: Math.max(1, frameInterval - (Date.now() - now)),
\* in whole milliseconds as the timer counts them
NextFrameDelay(fps, took) == Max(1, (1000 \div fps) - took)

\* camera-api.ts:172-186, the capture closure; took: the time the cycle
\* takes.  An exception leaving captureFrame() would leave the closure before
\* the next setTimeout.
capture(s, o, took) ==
    IF ~s.isStreaming \/ s.activeCamera = NULL THEN s
    ELSE LET s1 == captureFrame([s EXCEPT !.timers = Elapse(@, took)], o)
         IN  IF s1.exc THEN s1
             ELSE SetStreamInterval([s1 EXCEPT !.took = took],
                                    NextFrameDelay(s1.targetFps, took))

\* camera-api.ts:189-202, the stabilization timer's callback;
\* rate: cameraFormat().frameRate, or NULL when cameraFormat() throws
stabilized(s, rate, o, took) ==
    IF s.isStreaming /\ s.activeCamera # NULL
    THEN capture([s EXCEPT !.targetFps = IF rate = NULL THEN @ ELSE rate],
                 o, took)
    ELSE s

\* ------------------------------------------------------------ startStream
\* startStream without the "No camera selected" guard
startStream_NoGuard(s, cb, open) ==
    LET s1 == [s EXCEPT !.frameCallback = cb]
    IN  IF open = "throw"
        THEN [s1 EXCEPT !.isStreaming = FALSE, !.ret = "false"]
        ELSE [SetTimeout([s1 EXCEPT !.devOpen = @ \cup {s.activeCamera},
                                    !.isStreaming = TRUE],
                         "stab", StabilizationDelay)
              EXCEPT !.ret = "true"]

\* camera-api.ts:127-210; open: outcome of the device's openStream()
startStream(s, cb, open) ==
    IF s.activeCamera = NULL THEN [s EXCEPT !.ret = "false"]
    ELSE LET s1 == [s EXCEPT !.frameCallback = cb]
         IN  IF open = "throw"
             THEN [s1 EXCEPT !.isStreaming = FALSE, !.ret = "false"]
             ELSE [SetTimeout([s1 EXCEPT !.devOpen = @ \cup {s.activeCamera},
                                         !.isStreaming = TRUE],
                              "stab", StabilizationDelay)
                   EXCEPT !.ret = "true"]

\* ----------------------------------------------------------- selectCamera
\* selectCamera whose catch block keeps the previous handle
selectCamera_KeepsHandle(s, h, ctor, auto, probe, stop) ==
    LET s1 == stopStream(s)
    IN  IF ctor = "throw"
        THEN [s1 EXCEPT !.ret = "false"]
        ELSE LET s2 == [s1 EXCEPT !.activeCamera = h, !.replaced = s.activeCamera,
                                  !.devOpen = IF auto THEN @ \cup {h} ELSE @]
                 s3 == IF auto /\ probe = "ok"
                       THEN [s2 EXCEPT !.devOps = Append(@, DevOp(s2, "stop", h, h)),
                                       !.devOpen = IF stop = "ok" THEN @ \ {h} ELSE @]
                       ELSE s2
             IN  [s3 EXCEPT !.ret = "true"]

\* camera-api.ts:65-122; h: the new Camera object; ctor: the constructor
\* returns or throws; auto: the device auto-opened its stream; probe/stop:
\* outcome of isStreamOpen() and stopStream() on the new handle
selectCamera(s, h, ctor, auto, probe, stop) ==
    LET s1 == stopStream(s)
    IN  IF ctor = "throw"
        THEN [s1 EXCEPT !.activeCamera = NULL, !.ret = "false"]
        ELSE LET s2 == [s1 EXCEPT !.activeCamera = h, !.replaced = s.activeCamera,
                                  !.devOpen = IF auto THEN @ \cup {h} ELSE @]
                 s3 == IF auto /\ probe = "ok"
                       THEN [s2 EXCEPT !.devOps = Append(@, DevOp(s2, "stop", h, h)),
                                       !.devOpen = IF stop = "ok" THEN @ \ {h} ELSE @]
                       ELSE s2
             IN  [s3 EXCEPT !.ret = "true"]

\* ---------------------------------------------------------------- dispose
DisposeWait == 1000
\* camera-api.ts:443-465
dispose(s) ==
    IF s.disposed THEN s
    ELSE LET s1 == [s EXCEPT !.disposed = TRUE]
             s2 == IF s1.captureInProgress
                   THEN [s1 EXCEPT !.timers = Elapse(@, DisposeWait)]
                   ELSE s1
             s3 == stopStream(s2)
         IN  [s3 EXCEPT !.activeCamera = NULL, !.cameras = {}, !.frameCallback = NULL]

\* camera-api.ts:41-53; res: the native listCameras() returns or throws
listCameras(s, res) ==
    IF res = "throw" THEN s ELSE [s EXCEPT !.cameras = DeviceList]

\* ------------------------------------------------- selectBestCameraFormat
\* frame-converter.ts:295-300: a capture mode the device advertises
MaxModes == 3         \* modes in an advertised list
Resolutions == {<<640, 480>>, <<1280, 720>>, <<1920, 1080>>}
Modes == {[format |-> f, width |-> r[1], height |-> r[2], frameRate |-> fr] :
            f \in {"MJPEG", "YUYV"}, r \in Resolutions, fr \in {15, 30}}
Preferences == {"highest", "medium", "lowest"}
RECURSIVE SeqsUpTo(_, _)
SeqsUpTo(S, n) ==
    IF n = 0 THEN {<<>>}
    ELSE LET shorter == SeqsUpTo(S, n - 1)
         IN  shorter \cup {Append(q, x) : q \in {r \in shorter : Len(r) = n - 1}, x \in S}
ModeLists == SeqsUpTo(Modes, MaxModes)
\* sorted[0] || null of an empty result
NoFormat == [format |-> "none", width |-> 0, height |-> 0, frameRate |-> 0]

Abs(n) == IF n < 0 THEN -n ELSE n
Area(f) == f.width * f.height
\* a medium target of 1080p
MediumTarget_1080p == 1920 * 1080
MediumTarget == 1280 * 720

\* a comparator that ignores the frame rate under preference highest
CompareFormats_AreaOnly(a, b, pref) ==
    IF pref = "highest"
    THEN Area(b) - Area(a)
    ELSE IF pref = "lowest"
    THEN (IF Area(a) # Area(b) THEN Area(a) - Area(b) ELSE b.frameRate - a.frameRate)
    ELSE LET diffA == Abs(Area(a) - MediumTarget)
             diffB == Abs(Area(b) - MediumTarget)
         IN  IF diffA # diffB THEN diffA - diffB ELSE b.frameRate - a.frameRate

\* frame-converter.ts:313-331, the comparator: negative puts a first
CompareFormats(a, b, pref) ==
    IF pref = "highest"
    THEN (IF Area(b) # Area(a) THEN Area(b) - Area(a) ELSE b.frameRate - a.frameRate)
    ELSE IF pref = "lowest"
    THEN (IF Area(a) # Area(b) THEN Area(a) - Area(b) ELSE b.frameRate - a.frameRate)
    ELSE LET diffA == Abs(Area(a) - MediumTarget)
             diffB == Abs(Area(b) - MediumTarget)
         IN  IF diffA # diffB THEN diffA - diffB ELSE b.frameRate - a.frameRate

\* Array.prototype.sort is stable and sorts in place: x goes behind every
\* element that does not compare greater than it
InsertFormat(sorted, x, pref) ==
    LET k == Max(0, CHOOSE n \in 0..Len(sorted) :
                       /\ \A i \in 1..n : CompareFormats(sorted[i], x, pref) <= 0
                       /\ n < Len(sorted) => CompareFormats(sorted[n + 1], x, pref) > 0)
    IN  SubSeq(sorted, 1, k) \o <<x>> \o SubSeq(sorted, k + 1, Len(sorted))

\* a sort that leaves the array as it is
SortFormats_KeepsOrder(fs, pref) == fs
RECURSIVE SortFormats(_, _)
SortFormats(fs, pref) ==
    IF fs = <<>> THEN <<>>
    ELSE InsertFormat(SortFormats(SubSeq(fs, 1, Len(fs) - 1), pref), fs[Len(fs)], pref)

\* candidates that are all the modes, MJPEG or not
formatsToConsider_All(formats) == formats
\* frame-converter.ts:306-307: the MJPEG modes if there are any, else the
\* array itself
formatsToConsider(formats) ==
    LET mjpegFormats == SelectSeq(formats, LAMBDA f : f.format = "MJPEG")
    IN  IF Len(mjpegFormats) > 0 THEN mjpegFormats ELSE formats

\* a selector that returns null for a list of one mode as well
selectBestCameraFormat_NullForOne(formats, pref) ==
    IF Len(formats) <= 1 THEN [result |-> NoFormat, formats |-> formats]
    ELSE LET mjpegFormats == SelectSeq(formats, LAMBDA f : f.format = "MJPEG")
             sorted == SortFormats(formatsToConsider(formats), pref)
         IN  [result |-> sorted[1],
              formats |-> IF Len(mjpegFormats) > 0 THEN formats ELSE sorted]

\* frame-converter.ts:302-334.  result: the value returned (NoFormat: null);
\* formats: the caller's array after the call, which is the array sorted when
\* no MJPEG mode made filter() build a new one.
selectBestCameraFormat(formats, pref) ==
    IF Len(formats) = 0 THEN [result |-> NoFormat, formats |-> formats]
    ELSE LET mjpegFormats == SelectSeq(formats, LAMBDA f : f.format = "MJPEG")
             sorted == SortFormats(formatsToConsider(formats), pref)
         IN  [result |-> sorted[1],
              formats |-> IF Len(mjpegFormats) > 0 THEN formats ELSE sorted]

\* camera-api.ts:137-160: startStream asks the selector, given a copy of the
\* device's mode list and CAMERA_RESOLUTION, and then sends its request to
\* the device.  request: the requestType passed to setCameraRequest.
requestFormat(formats, pref) ==
    LET best == selectBestCameraFormat(formats, pref)
    IN  [result |-> best.result, formats |-> formats,
         request |-> "AbsoluteHighestResolution"]

\* The modes a request designates (nokhwa RequestedFormatType): the highest
\* resolution the device advertises, in any pixel format.
Designated(request, formats) ==
    IF request = "AbsoluteHighestResolution"
    THEN {formats[i] : i \in {j \in 1..Len(formats) :
                                 \A k \in 1..Len(formats) :
                                    Area(formats[k]) <= Area(formats[j])}}
    ELSE {}

IdleSelector == [phase |-> "idle", formats |-> <<>>, pref |-> "highest",
                 result |-> NoFormat, after |-> <<>>, request |-> "none"]

\* ----------------------------------------------- convertFrameToRGBABuffer
\* Buffers are functions from the byte offsets 0..n-1 to bytes.  Reading
\* outside a buffer yields undefined, which ?? replaces by a default; a
\* buffer never changes its length.
MaxDim == 3           \* largest width and height of a source or target image
Dims == 0..MaxDim
Formats == {"RGB", "RGBA", "MJPEG", "YUYV", "NV12"}
Qualities == {"fast", "quality"}
Min(a, b) == IF a <= b THEN a ELSE b
Size(buf) == Cardinality(DOMAIN buf)

\* Buffer.alloc(size): zero-filled
BufferAlloc(size) == [j \in 0..(size - 1) |-> 0]

\* sourceData[idx] ?? default
ReadByte(sourceData, idx, default) ==
    IF idx \in DOMAIN sourceData THEN sourceData[idx] ELSE default

\* sourceData.copy(buffer): as many bytes as both buffers hold
BufferCopy(sourceData, buffer) ==
    [j \in DOMAIN buffer |-> IF j \in DOMAIN sourceData THEN sourceData[j]
                             ELSE buffer[j]]

\* Math.round(n / d) for n >= 0, d > 0
RoundDiv(n, d) == (2 * n + d) \div (2 * d)

\* Math.round of a weighted sum n / d that the code evaluates in binary64.
\* The computed sum is within 2^-40 of n / d, and n / d is a half of a
\* whole number or at least 1 / (2 * d) away from one, so the result is
\* Math.round(n / d) unless n / d is exactly k + 1/2; the computed sum then
\* lies on either side of it and the result is k (tie = 0) or k + 1 (tie = 1).
TieOutcomes == {0, 1}
RoundSum(n, d, tie) == IF (2 * n) % (2 * d) = d THEN (n \div d) + tie ELSE RoundDiv(n, d)

\* a gradient with a constant blue of 0
fillGradient_NoBlue(buffer, width, height) ==
    [j \in DOMAIN buffer |->
        LET i == j \div 4
            c == j % 4
        IN  IF i >= width * height THEN buffer[j]
            ELSE IF c = 0 THEN ((i % width) * 255) \div width
            ELSE IF c = 1 THEN ((i \div width) * 255) \div height
            ELSE IF c = 2 THEN 0
            ELSE 255]

\* frame-converter.ts:279-289; pixel i is at column i % width, row i \div width
fillGradient(buffer, width, height) ==
    [j \in DOMAIN buffer |->
        LET i == j \div 4
            c == j % 4
        IN  IF i >= width * height THEN buffer[j]
            ELSE IF c = 0 THEN ((i % width) * 255) \div width
            ELSE IF c = 1 THEN ((i \div width) * 255) \div height
            ELSE IF c = 2 THEN 128
            ELSE 255]

\* the widening loop reading the source with a stride of 4 bytes
copyRGBToRGBA_Stride4(sourceData, buffer, pixelCount) ==
    [j \in DOMAIN buffer |->
        LET i == j \div 4
            c == j % 4
        IN  IF i >= pixelCount THEN buffer[j]
            ELSE IF c = 3 THEN 255
            ELSE ReadByte(sourceData, i * 4 + c, 0)]

\* frame-converter.ts:69-76, the widening loop of the fast path
copyRGBToRGBA(sourceData, buffer, pixelCount) ==
    [j \in DOMAIN buffer |->
        LET i == j \div 4
            c == j % 4
        IN  IF i >= pixelCount THEN buffer[j]
            ELSE IF c = 3 THEN 255
            ELSE ReadByte(sourceData, i * 3 + c, 0)]

\* frame-converter.ts:63-85
convertFrameToRGBABufferNoScale(frame, buffer) ==
    IF frame.format \in {"RGB", "MJPEG", "YUYV"}
    THEN copyRGBToRGBA(frame.data, buffer, frame.width * frame.height)
    ELSE IF frame.format = "RGBA"
    THEN BufferCopy(frame.data, buffer)
    ELSE fillGradient(buffer, frame.width, frame.height)

\* ---- the scale factors are JavaScript numbers (IEEE 754 binary64) ----
\* scaleX = sourceWidth / bufferWidth is the quotient rounded to the nearest
\* number with FractionBits + 1 significant bits (ties to even), and
\* x * scaleX is rounded once more.  All quantities below are whole numbers:
\* with 2^L <= a / b < 2^(L+1) and an / bn = a / (b * 2^L) in [1, 2), the
\* stored quotient is (a / b) + 2^L * c / (bn * 2^FractionBits), where c is
\* ScaleError(a, b).
FractionBits == 52
RECURSIVE Pow2(_)
Pow2(k) == IF k <= 0 THEN 1 ELSE 2 * Pow2(k - 1)
\* floor(log2(n)) for n >= 1
RECURSIVE Log2Floor(_)
Log2Floor(n) == IF n < 2 THEN 0 ELSE 1 + Log2Floor(n \div 2)
\* the least k with a * 2^k >= b, for 1 <= a
RECURSIVE Log2Up(_, _)
Log2Up(a, b) == IF a >= b THEN 0 ELSE 1 + Log2Up(2 * a, b)
\* L: the binary exponent of a / b, for a >= 1 and b >= 1
RatioExp(a, b) == IF a >= b THEN Log2Floor(a \div b) ELSE 0 - Log2Up(a, b)
NormNum(a, b) == IF a >= b THEN a ELSE a * Pow2(Log2Up(a, b))
NormDen(a, b) == IF a >= b THEN b * Pow2(Log2Floor(a \div b)) ELSE b
\* (r * 2^j) % bn: the remainder of the long division after j more bits
RECURSIVE ShiftRem(_, _, _)
ShiftRem(r, bn, j) == IF j = 0 \/ r = 0 THEN r ELSE ShiftRem((2 * r) % bn, bn, j - 1)
\* c: what rounding the quotient to nearest (ties to even) adds to it, in
\* units of 2^L / (bn * 2^FractionBits); negative when it is rounded down
ScaleError(a, b) ==
    LET an == NormNum(a, b)
        bn == NormDen(a, b)
        lastBit == (2 * ShiftRem(an % bn, bn, FractionBits - 1)) \div bn
        rem == ShiftRem(an % bn, bn, FractionBits)
    IN  IF 2 * rem < bn THEN 0 - rem
        ELSE IF 2 * rem > bn THEN bn - rem
        ELSE IF lastBit = 0 THEN 0 - rem ELSE bn - rem

\* Math.floor(x * (a / b)) for whole numbers x >= 0, a >= 0, b >= 1.  The
\* product can only round across a whole number n when x * a / b is exactly
\* n; it then becomes n - 1 when the quotient was rounded down by more than
\* half the distance between n and the binary64 number below n.
FloorScaled(x, a, b) ==
    LET n == (x * a) \div b
    IN  IF (x * a) % b # 0 \/ n = 0 THEN n
        ELSE LET c == ScaleError(a, b)
                 m == Log2Floor(n)
                 e == RatioExp(a, b) + 1 + (IF n = Pow2(m) THEN 1 ELSE 0)
                 lhs == x * (0 - c) * Pow2(e)
                 rhs == NormDen(a, b) * Pow2(m) * Pow2(0 - e)
             IN  IF c < 0 /\ lhs > rhs THEN n - 1 ELSE n

\* The source pixel the nearest-neighbour loops sample for target pixel i:
\* Math.min(Math.floor(x * scaleX), sourceWidth - 1) and the same for y, with
\* scaleX = sourceWidth / bufferWidth (frame-converter.ts:227-233, 259-265)
NearestPixel(i, sourceWidth, sourceHeight, bufferWidth, bufferHeight) ==
    LET x == i % bufferWidth
        y == i \div bufferWidth
        srcY == Min(FloorScaled(y, sourceHeight, bufferHeight), sourceHeight - 1)
        srcX == Min(FloorScaled(x, sourceWidth, bufferWidth), sourceWidth - 1)
    IN  srcY * sourceWidth + srcX

\* frame-converter.ts:216-242
convertRGBToRGBAWithNearestNeighbor(sourceData, buffer, sourceWidth, sourceHeight, bufferWidth, bufferHeight) ==
    [j \in DOMAIN buffer |->
        LET i == j \div 4
            c == j % 4
        IN  IF i >= bufferWidth * bufferHeight THEN buffer[j]
            ELSE LET srcIdx == NearestPixel(i, sourceWidth, sourceHeight,
                                            bufferWidth, bufferHeight) * 3
                 IN  IF c = 3 THEN 255 ELSE ReadByte(sourceData, srcIdx + c, 0)]

\* nearest-neighbour scaling of RGBA that sets every alpha to 255
convertRGBAToRGBAWithNearestNeighbor_OpaqueAlpha(sourceData, buffer, sourceWidth, sourceHeight, bufferWidth, bufferHeight) ==
    [j \in DOMAIN buffer |->
        LET i == j \div 4
            c == j % 4
        IN  IF i >= bufferWidth * bufferHeight THEN buffer[j]
            ELSE LET srcIdx == NearestPixel(i, sourceWidth, sourceHeight,
                                            bufferWidth, bufferHeight) * 4
                 IN  IF c = 3 THEN 255 ELSE ReadByte(sourceData, srcIdx + c, 0)]

\* frame-converter.ts:248-274
convertRGBAToRGBAWithNearestNeighbor(sourceData, buffer, sourceWidth, sourceHeight, bufferWidth, bufferHeight) ==
    [j \in DOMAIN buffer |->
        LET i == j \div 4
            c == j % 4
        IN  IF i >= bufferWidth * bufferHeight THEN buffer[j]
            ELSE LET srcIdx == NearestPixel(i, sourceWidth, sourceHeight,
                                            bufferWidth, bufferHeight) * 4
                 IN  ReadByte(sourceData, srcIdx + c, IF c = 3 THEN 255 ELSE 0)]

\* a bilinear sum with the two horizontal weights exchanged
Bilinear_SwappedWeights(sourceData, i, c, channels, default, sourceWidth, sourceHeight, bufferWidth, bufferHeight, tie) ==
    LET x == i % bufferWidth
        y == i \div bufferWidth
        x0 == (x * sourceWidth) \div bufferWidth
        y0 == (y * sourceHeight) \div bufferHeight
        x1 == Min(x0 + 1, sourceWidth - 1)
        y1 == Min(y0 + 1, sourceHeight - 1)
        fx == (x * sourceWidth) % bufferWidth
        fy == (y * sourceHeight) % bufferHeight
        v00 == ReadByte(sourceData, (y0 * sourceWidth + x0) * channels + c, default)
        v10 == ReadByte(sourceData, (y0 * sourceWidth + x1) * channels + c, default)
        v01 == ReadByte(sourceData, (y1 * sourceWidth + x0) * channels + c, default)
        v11 == ReadByte(sourceData, (y1 * sourceWidth + x1) * channels + c, default)
    IN  RoundSum(fx * (bufferHeight - fy) * v00
                 + (bufferWidth - fx) * (bufferHeight - fy) * v10
                 + fx * fy * v01
                 + (bufferWidth - fx) * fy * v11,
                 bufferWidth * bufferHeight, tie)

\* The bilinear sum of one channel of target pixel i
\* (frame-converter.ts:101-129).  With scaleX = sourceWidth / bufferWidth the
\* fraction fx is (x * sourceWidth % bufferWidth) / bufferWidth, so the four
\* weights are whole numbers over bufferWidth * bufferHeight.  Where
\* Math.floor(x * scaleX) is one less than x * sourceWidth / bufferWidth (see
\* FloorScaled) the code's fx is within 2^-40 of 1 and x1 is the column used
\* here as x0, so the sum is the same up to the rounding RoundSum allows for.
\* channels: bytes per source pixel; c: the channel; default: the ?? value.
Bilinear(sourceData, i, c, channels, default, sourceWidth, sourceHeight, bufferWidth, bufferHeight, tie) ==
    LET x == i % bufferWidth
        y == i \div bufferWidth
        x0 == (x * sourceWidth) \div bufferWidth
        y0 == (y * sourceHeight) \div bufferHeight
        x1 == Min(x0 + 1, sourceWidth - 1)
        y1 == Min(y0 + 1, sourceHeight - 1)
        fx == (x * sourceWidth) % bufferWidth
        fy == (y * sourceHeight) % bufferHeight
        v00 == ReadByte(sourceData, (y0 * sourceWidth + x0) * channels + c, default)
        v10 == ReadByte(sourceData, (y0 * sourceWidth + x1) * channels + c, default)
        v01 == ReadByte(sourceData, (y1 * sourceWidth + x0) * channels + c, default)
        v11 == ReadByte(sourceData, (y1 * sourceWidth + x1) * channels + c, default)
    IN  RoundSum((bufferWidth - fx) * (bufferHeight - fy) * v00
                 + fx * (bufferHeight - fy) * v10
                 + (bufferWidth - fx) * fy * v01
                 + fx * fy * v11,
                 bufferWidth * bufferHeight, tie)

\* frame-converter.ts:90-145
convertRGBToRGBAWithScaling(sourceData, buffer, sourceWidth, sourceHeight, bufferWidth, bufferHeight, tie) ==
    [j \in DOMAIN buffer |->
        LET i == j \div 4
            c == j % 4
        IN  IF i >= bufferWidth * bufferHeight THEN buffer[j]
            ELSE IF c = 3 THEN 255
            ELSE Bilinear(sourceData, i, c, 3, 0, sourceWidth, sourceHeight,
                          bufferWidth, bufferHeight, tie)]

\* frame-converter.ts:150-210
convertRGBAToRGBAWithScaling(sourceData, buffer, sourceWidth, sourceHeight, bufferWidth, bufferHeight, tie) ==
    [j \in DOMAIN buffer |->
        LET i == j \div 4
            c == j % 4
        IN  IF i >= bufferWidth * bufferHeight THEN buffer[j]
            ELSE Bilinear(sourceData, i, c, 4, IF c = 3 THEN 255 ELSE 0,
                          sourceWidth, sourceHeight, bufferWidth, bufferHeight, tie)]

\* a converter that allocates three bytes per target pixel
convertFrameToRGBABuffer_AllocRGB(frame, bufferWidth, bufferHeight, quality, tie) ==
    LET buffer == BufferAlloc(bufferWidth * bufferHeight * 3)
    IN  IF frame.width = bufferWidth /\ frame.height = bufferHeight
        THEN convertFrameToRGBABufferNoScale(frame, buffer)
        ELSE IF frame.format \in {"RGB", "MJPEG", "YUYV"}
        THEN (IF quality = "fast"
              THEN convertRGBToRGBAWithNearestNeighbor(
                       frame.data, buffer, frame.width, frame.height,
                       bufferWidth, bufferHeight)
              ELSE convertRGBToRGBAWithScaling(
                       frame.data, buffer, frame.width, frame.height,
                       bufferWidth, bufferHeight, tie))
        ELSE IF frame.format = "RGBA"
        THEN (IF quality = "fast"
              THEN convertRGBAToRGBAWithNearestNeighbor(
                       frame.data, buffer, frame.width, frame.height,
                       bufferWidth, bufferHeight)
              ELSE convertRGBAToRGBAWithScaling(
                       frame.data, buffer, frame.width, frame.height,
                       bufferWidth, bufferHeight, tie))
        ELSE fillGradient(buffer, bufferWidth, bufferHeight)

\* frame-converter.ts:18-58; tie: see RoundSum
convertFrameToRGBABuffer(frame, bufferWidth, bufferHeight, quality, tie) ==
    LET buffer == BufferAlloc(bufferWidth * bufferHeight * 4)
    IN  IF frame.width = bufferWidth /\ frame.height = bufferHeight
        THEN convertFrameToRGBABufferNoScale(frame, buffer)
        ELSE IF frame.format \in {"RGB", "MJPEG", "YUYV"}
        THEN (IF quality = "fast"
              THEN convertRGBToRGBAWithNearestNeighbor(
                       frame.data, buffer, frame.width, frame.height,
                       bufferWidth, bufferHeight)
              ELSE convertRGBToRGBAWithScaling(
                       frame.data, buffer, frame.width, frame.height,
                       bufferWidth, bufferHeight, tie))
        ELSE IF frame.format = "RGBA"
        THEN (IF quality = "fast"
              THEN convertRGBAToRGBAWithNearestNeighbor(
                       frame.data, buffer, frame.width, frame.height,
                       bufferWidth, bufferHeight)
              ELSE convertRGBAToRGBAWithScaling(
                       frame.data, buffer, frame.width, frame.height,
                       bufferWidth, bufferHeight, tie))
        ELSE fillGradient(buffer, bufferWidth, bufferHeight)

\* Source data: len bytes, byte k being seed + k * step (mod 256)
DataPatterns == {[seed |-> 255, step |-> 0], [seed |-> 10, step |-> 50]}
MakeData(len, pat) == [k \in 0..(len - 1) |-> (pat.seed + k * pat.step) % 256]
\* bytes per pixel of a frame tagged f
Channels(f) == IF f = "RGBA" THEN 4 ELSE 3
\* none, one byte short, exact, one byte long
DataLens(f, w, h) ==
    {0, Max(0, w * h * Channels(f) - 1), w * h * Channels(f), w * h * Channels(f) + 1}

IdleConverter ==
    [phase |-> "idle",
     frame |-> [format |-> "RGB", width |-> 0, height |-> 0, data |-> BufferAlloc(0)],
     bufferWidth |-> 0, bufferHeight |-> 0, quality |-> "fast",
     output |-> BufferAlloc(0)]

\* ------------------------------------------------------- error logging
\* The console.error entries of the capture loop.  lg is
\* [now: Date.now(), lastErrorLogTime, consecutiveErrors, isStreaming,
\*  ticks: clock steps taken,
\*  entry, prev: the last two entries written, of any kind,
\*  tEntry, tPrev: the last two entries written by logThrottledError,
\*  err: the last call of logThrottledError: how long after lastErrorLogTime
\*       it came and whether it wrote an entry]
errorLogInterval == 5000
MaxTicks == 4          \* clock steps taken in one behaviour
ClockSteps == {1, errorLogInterval - 1, errorLogInterval}
NoEntry == [at |-> -1, kind |-> "none"]
\* the object after construction (camera-api.ts:31-34); Date.now() is a time
\* of day, far more than errorLogInterval from 0
IdleLog ==
    [now |-> errorLogInterval, lastErrorLogTime |-> 0, consecutiveErrors |-> 0,
     isStreaming |-> FALSE, ticks |-> 0,
     entry |-> NoEntry, prev |-> NoEntry, tEntry |-> NoEntry, tPrev |-> NoEntry,
     err |-> [seen |-> FALSE, waited |-> 0, logged |-> FALSE]]

\* console.error(...)
ConsoleError(lg, kind) ==
    [lg EXCEPT !.prev = lg.entry, !.entry = [at |-> lg.now, kind |-> kind]]

\* a throttle that never stamps the time of the entry it writes
logThrottledError_NoStamp(lg, kind) ==
    IF lg.now - lg.lastErrorLogTime >= errorLogInterval
    THEN [ConsoleError(lg, kind) EXCEPT
             !.tPrev = lg.tEntry, !.tEntry = [at |-> lg.now, kind |-> kind],
             !.err = [seen |-> TRUE, waited |-> lg.now - lg.lastErrorLogTime,
                      logged |-> TRUE]]
    ELSE [lg EXCEPT !.err = [seen |-> TRUE, waited |-> lg.now - lg.lastErrorLogTime,
                             logged |-> FALSE]]

\* camera-api.ts:365-371
logThrottledError(lg, kind) ==
    IF lg.now - lg.lastErrorLogTime >= errorLogInterval
    THEN [ConsoleError(lg, kind) EXCEPT
             !.lastErrorLogTime = lg.now,
             !.tPrev = lg.tEntry, !.tEntry = [at |-> lg.now, kind |-> kind],
             !.err = [seen |-> TRUE, waited |-> lg.now - lg.lastErrorLogTime,
                      logged |-> TRUE]]
    ELSE [lg EXCEPT !.err = [seen |-> TRUE, waited |-> lg.now - lg.lastErrorLogTime,
                             logged |-> FALSE]]

\* camera-api.ts:348-356: the catch block of a cycle
loggedCatch(lg) ==
    LET lg1 == logThrottledError([lg EXCEPT !.consecutiveErrors = @ + 1], "capture")
    IN  IF lg1.consecutiveErrors >= maxConsecutiveErrors
        THEN [ConsoleError(lg1, "selfstop") EXCEPT !.isStreaming = FALSE]
        ELSE lg1

\* camera-api.ts:286-289, 315-337: a frame was captured and its decoder threw
loggedDecodeFailure(lg) ==
    logThrottledError([lg EXCEPT !.consecutiveErrors = 0], "decode")

\* -------------------------------------------------------- WindowManager
\* w is [currentState, x, y, width, height, visible: the tracked config,
\*       boundsBeforeMinimize: the saved bounds, NoBounds for null,
\*       op: the last method called, from: the state it was called in
\*           (observation only),
\*       normalBounds: the bounds the window had when it was last in the
\*                     normal state before that call (observation only)]
ScreenWidth == 1920
ScreenHeight == 1080
NoBounds == [x |-> -1, y |-> -1, width |-> -1, height |-> -1]

\* window-manager.ts:339-346
getBounds(w) == [x |-> w.x, y |-> w.y, width |-> w.width, height |-> w.height]

\* window-manager.ts:138-153
setPosition(w, x, y) == [w EXCEPT !.x = x, !.y = y]

\* window-manager.ts:172-181
setSize(w, width, height) == [w EXCEPT !.width = width, !.height = height]

\* window-manager.ts:229-237
setVisible(w, visible) == [w EXCEPT !.visible = visible]

\* window-manager.ts:271-285
minimize(w) ==
    IF w.currentState = "minimized" THEN w
    ELSE setVisible([w EXCEPT !.boundsBeforeMinimize = getBounds(w),
                              !.currentState = "minimized"], FALSE)

\* window-manager.ts:290-310
maximize(w) ==
    IF w.currentState = "maximized" THEN w
    ELSE LET w1 == IF w.currentState = "normal"
                   THEN [w EXCEPT !.boundsBeforeMinimize = getBounds(w)]
                   ELSE w
             w2 == setPosition(setSize(w1, ScreenWidth, ScreenHeight), 0, 0)
         IN  [w2 EXCEPT !.currentState = "maximized"]

\* window-manager.ts:315-327
restore(w) ==
    IF w.currentState = "normal" THEN w
    ELSE LET b == w.boundsBeforeMinimize
             w1 == IF b # NoBounds
                   THEN setSize(setPosition(w, b.x, b.y), b.width, b.height)
                   ELSE w
         IN  [setVisible(w1, TRUE) EXCEPT !.currentState = "normal"]

\* a WindowManager with its window registered and the configured bounds
\* applied (window-manager.ts:82-98, 117-133)
WindowPositions == {0, 100}
WindowWidths == {320, 640}
WindowHeights == {240, 480}
IdleWindow ==
    [currentState |-> "normal", x |-> 100, y |-> 100, width |-> 640, height |-> 480,
     visible |-> TRUE, boundsBeforeMinimize |-> NoBounds, op |-> "none",
     from |-> "normal", normalBounds |-> NoBounds]

\* --------------------------------------------------------- WebcamManager
\* The owner of the session in the application: WebcamManager drives the
\* CameraAPI singleton and records what it did in the settings store.
\* m: [api: the session, cameraActive, streaming: the stored flags]
RenderCallback == NumCallbacks + 1
Manager == [api |-> Session, cameraActive |-> cfgCameraActive,
            streaming |-> cfgStreaming]

\* webcam-manager.ts:240-310 (window and renderer ready)
startCamera(m, open) ==
    IF m.api.isStreaming THEN [m EXCEPT !.api.ret = "true"]
    ELSE LET s == startStream(m.api, RenderCallback, open)
         IN  IF s.ret = "true"
             THEN [api |-> s, cameraActive |-> TRUE, streaming |-> TRUE]
             ELSE [m EXCEPT !.api = s]

\* webcam-manager.ts:315-324
stopCamera(m) ==
    [api |-> stopStream(m.api), cameraActive |-> FALSE, streaming |-> FALSE]

\* webcam-manager.ts:329-337
toggleCamera(m, open) ==
    IF m.api.isStreaming
    THEN [stopCamera(m) EXCEPT !.api.ret = "false"]
    ELSE startCamera(m, open)

\* webcam-manager.ts:199-235
managerSelectCamera(m, h, ctor, auto, probe, stop, open) ==
    LET s0 == IF m.api.isStreaming THEN stopStream(m.api) ELSE m.api
        s1 == selectCamera(s0, h, ctor, auto, probe, stop)
    IN  IF s1.ret = "false" THEN [m EXCEPT !.api = s1]
        ELSE IF m.cameraActive
             THEN [startCamera([m EXCEPT !.api = s1], open) EXCEPT !.api.ret = "true"]
             ELSE [m EXCEPT !.api = s1]

\* ================================================================ actions
\* The handler's result becomes the next state.
Commit(op, s) ==
    /\ s.consecutiveErrors <= MaxErrors
    /\ UNCHANGED pureVars
    /\ cameras' = s.cameras
    /\ activeCamera' = s.activeCamera
    /\ isStreaming' = s.isStreaming
    /\ frameCallback' = s.frameCallback
    /\ streamInterval' = s.streamInterval
    /\ targetFps' = s.targetFps
    /\ consecutiveErrors' = s.consecutiveErrors
    /\ disposed' = s.disposed
    /\ captureInProgress' = s.captureInProgress
    /\ timers' = s.timers
    /\ devOpen' = s.devOpen
    /\ last' = Event(op, s)
    /\ stoppedSince' = IF op = "startStream" THEN FALSE
                       ELSE IF s.stopCalled THEN TRUE ELSE stoppedSince
    /\ disposedHandle' =
         IF op = "dispose" /\ ~disposed
         THEN (IF isStreaming /\ activeCamera \in devOpen THEN activeCamera ELSE NULL)
         ELSE IF \E i \in 1..Len(s.devOps) :
                    s.devOps[i].op = "stop" /\ s.devOps[i].h = disposedHandle
              THEN NULL
              ELSE disposedHandle

\* the CameraAPI singleton after construction (camera-api.ts:22-36)
SessionInit ==
    /\ cameras = {}
    /\ activeCamera = NULL
    /\ isStreaming = FALSE
    /\ frameCallback = NULL
    /\ streamInterval = "null"
    /\ targetFps = DefaultFps
    /\ consecutiveErrors = 0
    /\ disposed = FALSE
    /\ captureInProgress = FALSE
    /\ timers = <<>>
    /\ devOpen = {}
    /\ handlesMade = 0
    /\ last = Event("init", Session)
    /\ stoppedSince = FALSE
    /\ disposedHandle = NULL
    /\ calls = 0
    /\ cfgCameraActive = FALSE
    /\ cfgStreaming = FALSE

Init ==
    /\ SessionInit
    /\ selector = IdleSelector
    /\ converter = IdleConverter
    /\ decoder = IdleDecoder
    /\ errlog = IdleLog
    /\ window = IdleWindow

ListCameras ==
    /\ calls < MaxCalls /\ calls' = calls + 1
    /\ \E res \in {"ok", "throw"} : Commit("listCameras", listCameras(Session, res))
    /\ UNCHANGED <<handlesMade, mgrVars>>

SelectCamera ==
    /\ calls < MaxCalls /\ calls' = calls + 1
    /\ \E ctor \in {"ok", "throw"}, auto \in BOOLEAN, probe \in {"ok", "throw"},
          stop \in {"ok", "throw"} :
          /\ Commit("selectCamera",
                    selectCamera(Session, handlesMade + 1, ctor, auto, probe, stop))
          /\ handlesMade' = IF ctor = "ok" THEN handlesMade + 1 ELSE handlesMade
    /\ UNCHANGED mgrVars

StartStream ==
    /\ calls < MaxCalls /\ calls' = calls + 1
    /\ \E cb \in Callbacks, open \in {"ok", "throw"} :
          Commit("startStream", startStream(Session, cb, open))
    /\ UNCHANGED <<handlesMade, mgrVars>>

StopStream ==
    /\ calls < MaxCalls /\ calls' = calls + 1
    /\ Commit("stopStream", stopStream(Session))
    /\ UNCHANGED <<handlesMade, mgrVars>>

Dispose ==
    /\ calls < MaxCalls /\ calls' = calls + 1
    /\ Commit("dispose", dispose(Session))
    /\ UNCHANGED <<handlesMade, mgrVars>>

\* webcam-manager.ts:253-299: the callback WebcamManager passes catches every
\* error of its own; any other callback may throw.
CallbackMayThrow(o) == o.cbres = "throw" => frameCallback # RenderCallback

\* the event loop runs the callback of the timer that is due first
TimerFired(i) == [Session EXCEPT !.timers = RemoveAt(@, i)]

StabilizationFires(durations) ==
    /\ UNCHANGED calls
    /\ \E i \in 1..Len(timers) :
          /\ IsNextDue(timers, i)
          /\ timers[i].kind = "stab"
          /\ \E rate \in {NULL} \cup FrameRates, o \in CycleOutcomes, took \in durations :
                /\ CallbackMayThrow(o)
                /\ Commit("stabilized",
                          stabilized(TimerFired(i), rate, o, took))
    /\ UNCHANGED <<handlesMade, mgrVars>>

CaptureFires(durations) ==
    /\ UNCHANGED calls
    /\ \E i \in 1..Len(timers) :
          /\ IsNextDue(timers, i)
          /\ timers[i].kind = "capture"
          /\ \E o \in CycleOutcomes, took \in durations :
                /\ CallbackMayThrow(o)
                /\ Commit("capture", capture(TimerFired(i), o, took))
    /\ UNCHANGED <<handlesMade, mgrVars>>

FireStabilization == StabilizationFires(CycleTimes)

FireCapture == CaptureFires(CycleTimes)

FireDeferredClose ==
    /\ UNCHANGED calls
    /\ \E i \in 1..Len(timers) :
          /\ IsNextDue(timers, i)
          /\ timers[i].kind = "close"
          /\ \E probe \in {"ok", "throw"}, stop \in {"ok", "throw"} :
                Commit("deferredClose",
                       deferredClose(TimerFired(i), timers[i].sched, probe, stop))
    /\ UNCHANGED <<handlesMade, mgrVars>>

\* time passes up to the next deadline
Advance ==
    /\ UNCHANGED calls
    /\ timers # <<>>
    /\ \A i \in 1..Len(timers) : timers[i].rem > 0
    /\ \E d \in {timers[i].rem : i \in 1..Len(timers)} :
          /\ \A i \in 1..Len(timers) : d <= timers[i].rem
          /\ timers' = Elapse(timers, d)
    /\ last' = Event("advance", Session)
    /\ UNCHANGED <<progVars, devOpen, handlesMade, stoppedSince, disposedHandle,
                   mgrVars, pureVars>>

Next ==
    \/ ListCameras
    \/ SelectCamera
    \/ StartStream
    \/ StopStream
    \/ Dispose
    \/ FireStabilization
    \/ FireCapture
    \/ FireDeferredClose
    \/ Advance

Spec == Init /\ [][Next]_vars

\* ------------------------------------------- the session under WebcamManager
MgrCommit(op, m) ==
    /\ Commit(op, m.api)
    /\ cfgCameraActive' = m.cameraActive
    /\ cfgStreaming' = m.streaming

MgrSelectCamera ==
    /\ calls < MaxCalls /\ calls' = calls + 1
    /\ \E ctor \in {"ok", "throw"}, auto \in BOOLEAN, probe \in {"ok", "throw"},
          stop \in {"ok", "throw"}, open \in {"ok", "throw"} :
          /\ MgrCommit("selectCamera",
                       managerSelectCamera(Manager, handlesMade + 1, ctor, auto,
                                           probe, stop, open))
          /\ handlesMade' = IF ctor = "ok" THEN handlesMade + 1 ELSE handlesMade

MgrStartCamera ==
    /\ calls < MaxCalls /\ calls' = calls + 1
    /\ \E open \in {"ok", "throw"} : MgrCommit("startCamera", startCamera(Manager, open))
    /\ UNCHANGED handlesMade

MgrStopCamera ==
    /\ calls < MaxCalls /\ calls' = calls + 1
    /\ MgrCommit("stopCamera", stopCamera(Manager))
    /\ UNCHANGED handlesMade

MgrToggleCamera ==
    /\ calls < MaxCalls /\ calls' = calls + 1
    /\ \E open \in {"ok", "throw"} : MgrCommit("toggleCamera", toggleCamera(Manager, open))
    /\ UNCHANGED handlesMade

MgrNext ==
    \/ MgrSelectCamera
    \/ MgrStartCamera
    \/ MgrStopCamera
    \/ MgrToggleCamera
    \/ FireStabilization
    \/ FireCapture
    \/ FireDeferredClose
    \/ Advance

MgrSpec == Init /\ [][MgrNext]_vars

\* ----------------------------------------- one session, cycles that take time
\* A caller that selects a camera, starts the stream, may stop it and start
\* it once more, and may dispose of the session, while a capture cycle may
\* take no time, less than a frame interval, or more than one.
MaxCycleTime == 60
LoopCycleTimes == {0, 10, MaxCycleTime}

LoopSelect ==
    /\ calls = 0 /\ calls' = 1
    /\ \E ctor \in {"ok", "throw"}, auto \in BOOLEAN :
          /\ Commit("selectCamera",
                    selectCamera(Session, handlesMade + 1, ctor, auto, "ok", "ok"))
          /\ handlesMade' = IF ctor = "ok" THEN handlesMade + 1 ELSE handlesMade
    /\ UNCHANGED mgrVars

LoopStart ==
    /\ calls \in {1, 3} /\ calls' = calls + 1
    /\ \E cb \in Callbacks, open \in {"ok", "throw"} :
          Commit("startStream", startStream(Session, cb, open))
    /\ UNCHANGED <<handlesMade, mgrVars>>

LoopStop ==
    /\ calls = 2 /\ calls' = 3
    /\ Commit("stopStream", stopStream(Session))
    /\ UNCHANGED <<handlesMade, mgrVars>>

LoopDispose ==
    /\ calls \in {2, 3, 4} /\ calls' = 5
    /\ Commit("dispose", dispose(Session))
    /\ UNCHANGED <<handlesMade, mgrVars>>

LoopFireStabilization == StabilizationFires(LoopCycleTimes)

LoopFireCapture == CaptureFires(LoopCycleTimes)

LoopNext ==
    \/ LoopSelect
    \/ LoopStart
    \/ LoopStop
    \/ LoopDispose
    \/ LoopFireStabilization
    \/ LoopFireCapture
    \/ FireDeferredClose
    \/ Advance

LoopSpec == Init /\ [][LoopNext]_vars

\* ------------------------------------------- the format selector on its own
\* Inputs: any advertised list of at most MaxModes modes, any preference.
SelectorInit ==
    /\ SessionInit
    /\ \E fs \in ModeLists, pref \in Preferences :
          selector = [IdleSelector EXCEPT !.phase = "input", !.formats = fs,
                                          !.pref = pref]
    /\ converter = IdleConverter
    /\ decoder = IdleDecoder
    /\ errlog = IdleLog
    /\ window = IdleWindow

\* a caller passes its list to selectBestCameraFormat
SelectFormat ==
    /\ selector.phase = "input"
    /\ LET r == selectBestCameraFormat(selector.formats, selector.pref)
       IN  selector' = [selector EXCEPT !.phase = "selected", !.result = r.result,
                                        !.after = r.formats]
    /\ UNCHANGED <<sessionVars, converter, decoder, errlog, window>>

\* startStream picks and requests a mode of the device's list
RequestFormat ==
    /\ selector.phase = "input"
    /\ LET r == requestFormat(selector.formats, selector.pref)
       IN  selector' = [selector EXCEPT !.phase = "requested", !.result = r.result,
                                        !.after = r.formats, !.request = r.request]
    /\ UNCHANGED <<sessionVars, converter, decoder, errlog, window>>

SelectorNext ==
    \/ SelectFormat
    \/ RequestFormat

SelectorSpec == SelectorInit /\ [][SelectorNext]_vars

\* ------------------------------------------------ the converter on its own
\* Inputs: every format, source and target size up to MaxDim, both
\* qualities, data of the expected length, shorter and longer; and one row
\* of pixels of each width pair of WideSizes, holding all of its data.
WideSizes == {<<30, 22>>}
ConverterInit ==
    /\ SessionInit
    /\ selector = IdleSelector
    /\ \/ \E f \in Formats, sw \in Dims, sh \in Dims, bw \in Dims, bh \in Dims,
             q \in Qualities, pat \in DataPatterns :
             \E len \in DataLens(f, sw, sh) :
                converter = [IdleConverter EXCEPT
                                !.phase = "input",
                                !.frame = [format |-> f, width |-> sw, height |-> sh,
                                           data |-> MakeData(len, pat)],
                                !.bufferWidth = bw, !.bufferHeight = bh,
                                !.quality = q]
       \/ \E f \in {"RGB", "RGBA"}, wide \in WideSizes, q \in Qualities,
             pat \in DataPatterns :
             converter = [IdleConverter EXCEPT
                             !.phase = "input",
                             !.frame = [format |-> f, width |-> wide[1], height |-> 1,
                                        data |-> MakeData(wide[1] * Channels(f), pat)],
                             !.bufferWidth = wide[2], !.bufferHeight = 1,
                             !.quality = q]
    /\ decoder = IdleDecoder
    /\ errlog = IdleLog
    /\ window = IdleWindow

Convert ==
    /\ converter.phase = "input"
    /\ \E tie \in TieOutcomes :
          converter' = [converter EXCEPT
                           !.phase = "done",
                           !.output = convertFrameToRGBABuffer(
                                          converter.frame, converter.bufferWidth,
                                          converter.bufferHeight, converter.quality,
                                          tie)]
    /\ UNCHANGED <<sessionVars, selector, decoder, errlog, window>>

ConverterNext == Convert

ConverterSpec == ConverterInit /\ [][ConverterNext]_vars

\* ------------------------------------------------- one frame on its own
\* Inputs: every frame length, declared format and decoder outcome of a
\* cycle whose capture returned a non-empty frame.
DecoderInit ==
    /\ SessionInit
    /\ selector = IdleSelector
    /\ converter = IdleConverter
    /\ \E o \in CaptureOutcomes :
          /\ o.probe = "ok" /\ o.res = "frame" /\ o.len > 0
          /\ decoder = [IdleDecoder EXCEPT !.phase = "captured", !.o = o]
    /\ errlog = IdleLog
    /\ window = IdleWindow

\* camera-api.ts:291-347: the frame is tagged, decoded where its tag asks
\* for it, and handed to the frame callback
DecodeFrame ==
    /\ decoder.phase = "captured"
    /\ decoder' = [decoder EXCEPT !.phase = "delivered",
                                  !.fmt = Decoded(decoder.o).fmt,
                                  !.data = Decoded(decoder.o).data]
    /\ UNCHANGED <<sessionVars, selector, converter, errlog, window>>

DecoderNext == DecodeFrame

DecoderSpec == DecoderInit /\ [][DecoderNext]_vars

\* ------------------------------------------- the error log on its own
\* A streaming session whose cycles fail in capturing or in decoding, or
\* deliver a frame, while the clock moves on in steps of 1 ms, one ms less
\* than the throttle interval, or the interval.
LogInit ==
    /\ SessionInit
    /\ selector = IdleSelector
    /\ converter = IdleConverter
    /\ decoder = IdleDecoder
    /\ errlog = [IdleLog EXCEPT !.isStreaming = TRUE]
    /\ window = IdleWindow

LogOthers == <<sessionVars, selector, converter, decoder, window>>

LogTick ==
    /\ errlog.ticks < MaxTicks
    /\ \E d \in ClockSteps :
          errlog' = [errlog EXCEPT !.now = @ + d, !.ticks = @ + 1]
    /\ UNCHANGED LogOthers

LogCaptureError ==
    /\ errlog.isStreaming
    /\ errlog' = loggedCatch(errlog)
    /\ UNCHANGED LogOthers

LogDecodeFailure ==
    /\ errlog.isStreaming
    /\ errlog' = loggedDecodeFailure(errlog)
    /\ UNCHANGED LogOthers

\* camera-api.ts:286-289: a frame was captured and delivered
LogFrame ==
    /\ errlog.isStreaming
    /\ errlog.consecutiveErrors > 0
    /\ errlog' = [errlog EXCEPT !.consecutiveErrors = 0]
    /\ UNCHANGED LogOthers

LogNext ==
    \/ LogTick
    \/ LogCaptureError
    \/ LogDecodeFailure
    \/ LogFrame

LogSpec == LogInit /\ [][LogNext]_vars

\* --------------------------------------- the window manager on its own
\* A window in the normal state, at any configured bounds, on which
\* minimize(), maximize() and restore() are called in any order.
WindowInit ==
    /\ SessionInit
    /\ selector = IdleSelector
    /\ converter = IdleConverter
    /\ decoder = IdleDecoder
    /\ errlog = IdleLog
    /\ \E x \in WindowPositions, y \in WindowPositions, width \in WindowWidths,
          height \in WindowHeights, visible \in BOOLEAN :
          window = [IdleWindow EXCEPT !.x = x, !.y = y, !.width = width,
                                      !.height = height, !.visible = visible]

\* the method's result becomes the window's state
WindowCommit(op, w) ==
    /\ window' = [w EXCEPT !.op = op, !.from = window.currentState,
                           !.normalBounds = IF window.currentState = "normal"
                                            THEN getBounds(window) ELSE @]
    /\ UNCHANGED <<sessionVars, selector, converter, decoder, errlog>>

Minimize == WindowCommit("minimize", minimize(window))

Maximize == WindowCommit("maximize", maximize(window))

Restore == WindowCommit("restore", restore(window))

WindowNext ==
    \/ Minimize
    \/ Maximize
    \/ Restore

WindowSpec == WindowInit /\ [][WindowNext]_vars

\* The event loop: a timer that is due is run, and time passes while timers
\* are pending.  The caller is under no obligation to call anything.
FairSpec ==
    /\ Spec
    /\ WF_vars(FireStabilization)
    /\ WF_vars(FireCapture)
    /\ WF_vars(FireDeferredClose)
    /\ WF_vars(Advance)

\* ================================================================= claims
PendingKinds == {timers[i].kind : i \in 1..Len(timers)}
CaptureOps(e) == {i \in 1..Len(e.devOps) : e.devOps[i].op = "capture"}

\* C1: between handlers no capture cycle is executing (captureInProgress is
\* false after every exit path of captureFrame); a handler runs at most one
\* device capture and runs it with captureInProgress set; and a cycle entered
\* while captureInProgress is true changes nothing.
C1_AtMostOneCycle ==
    /\ captureInProgress = FALSE
    /\ Cardinality(CaptureOps(last)) <= 1
    /\ \A i \in CaptureOps(last) : last.devOps[i].cip
    /\ \A o \in CaptureOutcomes :
          LET busy == [Session EXCEPT !.captureInProgress = TRUE]
          IN  captureFrame(busy, o) = busy

\* a cycle that captured on the device and left through the catch block
C1_Witness ==
    /\ last.op = "capture"
    /\ CaptureOps(last) # {}
    /\ last.cb = NULL
    /\ consecutiveErrors > 0
    /\ ~captureInProgress

\* C2: when the loop stops itself after maxConsecutiveErrors consecutive
\* failures it is no longer streaming and no capture timer is pending.
C2_SelfStopEndsScheduling ==
    last.selfStop => ~isStreaming /\ "capture" \notin PendingKinds

\* C3: once stopStream() has returned, no handler invokes the frame callback
\* until startStream() is called again.
C3_NoCallbackAfterStop == [][stoppedSince => last'.cb = NULL]_vars

\* the stabilization timer of a stopped session fired and delivered nothing
C3_Witness ==
    /\ last.op = "stabilized"
    /\ stoppedSince
    /\ ~last.selfStop
    /\ ~isStreaming
    /\ last.cb = NULL

\* C4: stopStream() on a session that is not streaming changes no field of
\* the session, creates no timer and touches no device.
C4_StopIdempotent ==
    [][last'.op = "stopStream" /\ ~isStreaming
          => UNCHANGED <<progVars, timers, devOpen>>]_vars

\* C5: startStream() on a session that is streaming changes no field of the
\* session, creates no timer and does not reopen the device stream.
C5_StartWhileStreamingNoOp ==
    [][last'.op = "startStream" /\ isStreaming
          => UNCHANGED <<progVars, timers, devOpen>>]_vars

\* C6: when selectCamera replaces the handle of a streaming session the old
\* handle's stream is already closed, and every device call is made on the
\* handle that was active when the call was scheduled.
C6_CloseTargetsOwnHandle ==
    [][/\ (last'.op = "selectCamera" /\ isStreaming /\ last'.ret = "true")
            => activeCamera \notin devOpen'
       /\ \A i \in 1..Len(last'.devOps) :
            last'.devOps[i].h = last'.devOps[i].sched]_vars

\* C7: dispose() of a streaming session whose device stream is open clears
\* the handle and the cached list, and from then on, until the device's
\* stopStream has been called on that handle, a deferred close is pending.
C7_DisposeReleasesDevice ==
    [][/\ (last'.op = "dispose" /\ ~disposed /\ isStreaming /\ activeCamera \in devOpen)
            => activeCamera' = NULL /\ cameras' = {}
       /\ disposedHandle' # NULL => "close" \in {timers'[i].kind : i \in 1..Len(timers')}]_vars

\* C8: after dispose() the session never streams and never invokes the frame
\* callback, and another dispose() changes nothing.
C8_DisposeTerminal ==
    disposed => /\ ~isStreaming
                /\ last.cb = NULL
                /\ dispose(Session) = Session

\* C9: selectCamera returns true or false and leaves the session not
\* streaming; true: a camera is selected; false: none is selected and
\* startStream() then returns false.
C9_SelectEndsNotStreaming ==
    last.op = "selectCamera" =>
        /\ ~isStreaming
        /\ last.ret \in {"true", "false"}
        /\ last.ret = "true" => activeCamera # NULL
        /\ last.ret = "false" =>
              /\ activeCamera = NULL
              /\ \A cb \in Callbacks, open \in {"ok", "throw"} :
                    startStream(Session, cb, open).ret = "false"

\* selectCamera failed to open the device on a session that it had to stop
C9_Witness ==
    /\ last.op = "selectCamera"
    /\ last.ret = "false"
    /\ handlesMade > 0
    /\ \E i \in 1..Len(timers) : /\ timers[i].kind = "close"
                                 /\ timers[i].rem = StopGrace
                                 /\ timers[i].sched # NULL

\* C10: startStream() with no camera selected returns false and changes
\* nothing: no field, no timer, no device call.
C10_StartWithoutCamera ==
    [][last'.op = "startStream" /\ activeCamera = NULL
          => /\ last'.ret = "false"
             /\ last'.devOps = <<>>
             /\ UNCHANGED <<progVars, timers, devOpen, handlesMade>>]_vars

\* startStream() was called in Idle
C10_Witness ==
    /\ last.op = "startStream"
    /\ last.ret = "false"
    /\ activeCamera = NULL
    /\ ~isStreaming
    /\ frameCallback = NULL

\* C11: no failure of a capture cycle leaves the timer callback: whatever the
\* device calls, the decoders and the frame callback do (each may throw), the
\* callback of a due capture or stabilization timer ends without a
\* propagating exception, and if the session is streaming when it ends, the
\* next capture timer is pending and streamInterval refers to it.
C11_NoFailureEscapes ==
    /\ ~last.exc
    /\ \A i \in 1..Len(timers) :
          IsNextDue(timers, i) /\ timers[i].kind \in {"capture", "stab"} =>
             \A o \in CaptureOutcomes :
                \A rate \in IF timers[i].kind = "stab" THEN {NULL} \cup FrameRates
                             ELSE {NULL} :
                   LET r == IF timers[i].kind = "capture"
                            THEN capture(TimerFired(i), o, 0)
                            ELSE stabilized(TimerFired(i), rate, o, 0)
                   IN  /\ ~r.exc
                       /\ r.isStreaming =>
                             /\ r.streamInterval = "set"
                             /\ r.timers[Len(r.timers)].kind = "capture"
                             /\ r.timers[Len(r.timers)].ref

\* a cycle failed, the failure was counted, and the next cycle is scheduled
C11_Witness ==
    /\ last.op = "capture"
    /\ ~last.exc
    /\ consecutiveErrors > 0
    /\ isStreaming
    /\ \E j \in 1..Len(timers) : timers[j].kind = "capture" /\ timers[j].ref

\* C12: a streaming session whose cycles deliver no frame does not cycle for
\* ever: from every state in which the session is streaming and the handler
\* just run delivered nothing, a state is reached in which a frame has been
\* delivered or the session is no longer streaming.
C12_WedgedDeviceSelfStops ==
    (isStreaming /\ last.cb = NULL) ~> (~isStreaming \/ last.cb # NULL)

\* C13: when the loop stops itself after too many failures its owner learns
\* of it: at the end of the timer callback that stopped the stream, the
\* streaming state WebcamManager keeps in the settings store is false, as
\* the session's own isStreaming is.
C13_SelfStopReported ==
    last.selfStop => /\ ~isStreaming
                     /\ ~cfgStreaming
                     /\ ~cfgCameraActive

\* C14: whenever the capture closure has scheduled the next cycle, the timer
\* it created is due in max(1, frameInterval - took) milliseconds, where
\* frameInterval is 1000 / targetFps and took is the duration of the cycle
\* just run; the delay is at least 1 ms, also after a cycle that took longer
\* than a frame interval.
C14_NextDelay ==
    last.took >= 0 =>
        LET t == timers[Len(timers)]
            frameInterval == 1000 \div targetFps
        IN  /\ t.kind = "capture" /\ t.ref
            /\ t.rem >= 1
            /\ frameInterval - last.took >= 1 => t.rem = frameInterval - last.took
            /\ frameInterval - last.took < 1 => t.rem = 1

\* a cycle took longer than a frame interval and the next one is due in 1 ms
C14_Witness ==
    /\ last.op = "capture"
    /\ last.took > 1000 \div targetFps
    /\ isStreaming
    /\ timers[Len(timers)].kind = "capture"
    /\ timers[Len(timers)].rem = 1

\* the decoder of outcome o failed: the frame is MJPEG and too short or its
\* decoder threw, or it is YUYV and its decoder threw
DecodeFailed(o) ==
    /\ o.probe = "ok" /\ o.res = "frame" /\ o.len > 0
    /\ \/ Decoded(o).fmt = "MJPEG" /\ (o.len < MinMjpegSize \/ o.dec = "throw")
       \/ Decoded(o).fmt = "YUYV" /\ o.dec = "throw"

\* C15: a cycle whose MJPEG or YUYV frame fails to decode drops the frame:
\* the timer callback running that cycle does not invoke the frame callback,
\* and the session goes on streaming.
C15_DecodeFailureDropsFrame ==
    \A i \in 1..Len(timers) :
       IsNextDue(timers, i) /\ timers[i].kind \in {"capture", "stab"} =>
          \A o \in CaptureOutcomes :
             DecodeFailed(o) /\ o.cbres = "ok" =>
                LET r == IF timers[i].kind = "capture"
                         THEN capture(TimerFired(i), o, 0)
                         ELSE stabilized(TimerFired(i), NULL, o, 0)
                IN  r.cb = NULL /\ r.isStreaming = isStreaming

\* C16: the mode startStream asks the device for is the mode the selector
\* picked for the configured preference: when the selector picked a mode, the
\* request sent to the device designates that mode.
C16_RequestIsSelection ==
    selector.phase = "requested" /\ selector.result # NoFormat =>
        selector.result \in Designated(selector.request, selector.formats)

\* the call of the converter has returned
Converted == converter.phase = "done"
SameSize ==
    /\ converter.frame.width = converter.bufferWidth
    /\ converter.frame.height = converter.bufferHeight
TargetPixels == 0..(converter.bufferWidth * converter.bufferHeight - 1)

\* C17: the buffer convertFrameToRGBABuffer returns holds exactly
\* bufferWidth * bufferHeight * 4 bytes, for every format, source size, data
\* length and quality.
C17_OutputSize ==
    Converted =>
        DOMAIN converter.output =
            0..(converter.bufferWidth * converter.bufferHeight * 4 - 1)

\* an RGBA frame with more data than its size needs went through the copy
C17_Witness ==
    /\ Converted
    /\ SameSize
    /\ converter.frame.format = "RGBA"
    /\ converter.bufferWidth * converter.bufferHeight > 0
    /\ Size(converter.frame.data) > Size(converter.output)
    /\ Size(converter.output) = converter.bufferWidth * converter.bufferHeight * 4

\* C18: with equal source and target size and an RGB source, output bytes
\* 4i..4i+2 of every pixel i are source bytes 3i..3i+2 and output byte 4i+3
\* is 255, with either quality.
C18_FastPathCopiesRGB ==
    Converted /\ SameSize /\ converter.frame.format = "RGB" =>
        \A i \in TargetPixels :
           /\ \A c \in 0..2 :
                 (3 * i + c) \in DOMAIN converter.frame.data =>
                    converter.output[4 * i + c] = converter.frame.data[3 * i + c]
           /\ converter.output[4 * i + 3] = 255

\* a full RGB frame whose bytes differ from pixel to pixel was converted
\* with quality 'quality' and no scaling
C18_Witness ==
    /\ Converted
    /\ SameSize
    /\ converter.frame.format = "RGB"
    /\ converter.quality = "quality"
    /\ converter.bufferWidth * converter.bufferHeight > 1
    /\ Size(converter.frame.data) = 3 * converter.bufferWidth * converter.bufferHeight
    /\ converter.frame.data[3] # converter.frame.data[0]
    /\ converter.output[4] = converter.frame.data[3]

\* the source pixel a target pixel is taken from: the pixel itself without
\* scaling, else the pixel at (floor(x * scaleX), floor(y * scaleY))
SampledPixel(i) ==
    IF SameSize THEN i
    ELSE NearestPixel(i, converter.frame.width, converter.frame.height,
                      converter.bufferWidth, converter.bufferHeight)
\* alpha of source pixel px of an RGBA frame, 255 where the data ends before it
SourceAlpha(px) == ReadByte(converter.frame.data, 4 * px + 3, 255)
OutputAlpha(i) == converter.output[4 * i + 3]

\* C19 as claimed: every output alpha is 255 for an RGB source and is the
\* alpha of the sampled source pixel for an RGBA source, on the fast path
\* and on both scaling paths.
C19_AlphaPassedThrough ==
    Converted =>
        \A i \in TargetPixels :
           /\ converter.frame.format = "RGB" => OutputAlpha(i) = 255
           /\ (/\ converter.frame.format = "RGBA"
               /\ (4 * SampledPixel(i) + 3) \in DOMAIN converter.frame.data)
                 => OutputAlpha(i) = SourceAlpha(SampledPixel(i))

\* C19 amended: every output alpha is 255 for an RGB, MJPEG or YUYV source.
\* For an RGBA source it is the alpha of the sampled source pixel on the
\* fast path and with quality 'fast'; with quality 'quality' and differing
\* sizes it is the rounded sum of the alphas of the four neighbouring source
\* pixels, weighted as the colour channels are (255 for a neighbour the data
\* does not hold).
C19_AlphaAmended ==
    Converted =>
        \A i \in TargetPixels :
           LET sw == converter.frame.width
               sh == converter.frame.height
               bw == converter.bufferWidth
               bh == converter.bufferHeight
               x0 == ((i % bw) * sw) \div bw
               y0 == ((i \div bw) * sh) \div bh
               x1 == Min(x0 + 1, sw - 1)
               y1 == Min(y0 + 1, sh - 1)
               fx == ((i % bw) * sw) % bw
               fy == ((i \div bw) * sh) % bh
               sum == (bw - fx) * (bh - fy) * SourceAlpha(y0 * sw + x0)
                      + fx * (bh - fy) * SourceAlpha(y0 * sw + x1)
                      + (bw - fx) * fy * SourceAlpha(y1 * sw + x0)
                      + fx * fy * SourceAlpha(y1 * sw + x1)
           IN  /\ converter.frame.format \in {"RGB", "MJPEG", "YUYV"}
                    => OutputAlpha(i) = 255
               /\ (/\ converter.frame.format = "RGBA"
                   /\ (SameSize \/ converter.quality = "fast")
                   /\ (4 * SampledPixel(i) + 3) \in DOMAIN converter.frame.data)
                    => OutputAlpha(i) = SourceAlpha(SampledPixel(i))
               /\ (/\ converter.frame.format = "RGBA"
                   /\ ~SameSize /\ converter.quality = "quality")
                    => /\ 2 * bw * bh * OutputAlpha(i) <= 2 * sum + bw * bh
                       /\ 2 * sum + bw * bh <= 2 * bw * bh * (OutputAlpha(i) + 1)

\* a full RGBA frame was scaled with quality 'quality' and some output alpha
\* is the alpha of no source pixel
C19_Witness ==
    /\ Converted
    /\ ~SameSize
    /\ converter.frame.format = "RGBA"
    /\ converter.quality = "quality"
    /\ Size(converter.frame.data) = 4 * converter.frame.width * converter.frame.height
    /\ \E i \in TargetPixels :
          \A px \in 0..(converter.frame.width * converter.frame.height - 1) :
             OutputAlpha(i) # SourceAlpha(px)

\* C20: for a frame of a format other than RGB, RGBA, MJPEG and YUYV the
\* converter returns the gradient over the target: pixel (x, y) is
\* R = floor(x * 255 / targetW), G = floor(y * 255 / targetH), B = 128,
\* A = 255, with equal and with differing source and target sizes.
C20_UnknownFormatGradient ==
    Converted /\ converter.frame.format \notin {"RGB", "RGBA", "MJPEG", "YUYV"} =>
        /\ Size(converter.output) = 4 * converter.bufferWidth * converter.bufferHeight
        /\ \A i \in TargetPixels :
              LET x == i % converter.bufferWidth
                  y == i \div converter.bufferWidth
              IN  /\ converter.output[4 * i] = (x * 255) \div converter.bufferWidth
                  /\ converter.output[4 * i + 1] = (y * 255) \div converter.bufferHeight
                  /\ converter.output[4 * i + 2] = 128
                  /\ converter.output[4 * i + 3] = 255

\* a frame of unknown format and another size than the target was converted
\* to a gradient of several columns and rows
C20_Witness ==
    /\ Converted
    /\ ~SameSize
    /\ converter.frame.format = "NV12"
    /\ converter.bufferWidth > 1
    /\ converter.bufferHeight > 1
    /\ converter.output[4 * (converter.bufferWidth + 1)] > 0
    /\ converter.output[4 * (converter.bufferWidth + 1) + 1] > 0
    /\ converter.output[2] = 128

\* the source pixel floor(x * sourceW / targetW), floor(y * sourceH / targetH),
\* each clamped to the source image, for target pixel i
RatioPixel(i) ==
    LET x == i % converter.bufferWidth
        y == i \div converter.bufferWidth
        col == Max(0, Min((x * converter.frame.width) \div converter.bufferWidth,
                          converter.frame.width - 1))
        row == Max(0, Min((y * converter.frame.height) \div converter.bufferHeight,
                          converter.frame.height - 1))
    IN  row * converter.frame.width + col

\* a non-empty image in a pixel format was scaled with quality 'fast'
FastScaled ==
    /\ Converted
    /\ converter.quality = "fast"
    /\ ~SameSize
    /\ converter.frame.format \in {"RGB", "MJPEG", "YUYV", "RGBA"}
    /\ converter.frame.width > 0
    /\ converter.frame.height > 0

\* C21: with quality 'fast' and differing source and target sizes, every
\* target pixel (x, y) is a copy of the source pixel at column
\* floor(x * sourceW / targetW) and row floor(y * sourceH / targetH), each
\* clamped to the source image; the sampled pixel is inside the source image.
C21_NearestIsFloorOfRatio ==
    FastScaled =>
        \A i \in TargetPixels :
           /\ SampledPixel(i) \in 0..(converter.frame.width * converter.frame.height - 1)
           /\ \A c \in 0..2 :
                 converter.output[4 * i + c] =
                    ReadByte(converter.frame.data,
                             RatioPixel(i) * Channels(converter.frame.format) + c, 0)

\* a non-empty image in a pixel format was scaled with quality 'quality'
QualityScaled ==
    /\ Converted
    /\ converter.quality = "quality"
    /\ ~SameSize
    /\ converter.frame.format \in {"RGB", "MJPEG", "YUYV", "RGBA"}
    /\ converter.frame.width > 0
    /\ converter.frame.height > 0

\* colour channel c of source pixel (col, row), as the loops read it
SourceValue(col, row, c) ==
    ReadByte(converter.frame.data,
             (row * converter.frame.width + col) * Channels(converter.frame.format) + c, 0)

\* the interpolation property of channel c of target pixel i, where out is
\* the byte written, v00..v11 are the four neighbours, and the weights are
\* (bw - fx)(bh - fy), fx(bh - fy), (bw - fx)fy and fx * fy over bw * bh
Interpolates(i, c) ==
    LET sw == converter.frame.width
        sh == converter.frame.height
        bw == converter.bufferWidth
        bh == converter.bufferHeight
        x0 == ((i % bw) * sw) \div bw
        y0 == ((i \div bw) * sh) \div bh
        x1 == Min(x0 + 1, sw - 1)
        y1 == Min(y0 + 1, sh - 1)
        fx == ((i % bw) * sw) % bw
        fy == ((i \div bw) * sh) % bh
        v00 == SourceValue(x0, y0, c)
        v10 == SourceValue(x1, y0, c)
        v01 == SourceValue(x0, y1, c)
        v11 == SourceValue(x1, y1, c)
        sum == (bw - fx) * (bh - fy) * v00 + fx * (bh - fy) * v10
               + (bw - fx) * fy * v01 + fx * fy * v11
        out == converter.output[4 * i + c]
    IN  /\ 2 * bw * bh * out <= 2 * sum + bw * bh
        /\ 2 * sum + bw * bh <= 2 * bw * bh * (out + 1)
        /\ out >= Min(Min(v00, v10), Min(v01, v11))
        /\ out <= Max(Max(v00, v10), Max(v01, v11))
        /\ (fx = 0 /\ fy = 0) => out = v00

\* C22: with quality 'quality' every output colour channel is the sum of
\* the four neighbouring source pixels (x0,y0), (x1,y0), (x0,y1), (x1,y1),
\* x1 and y1 clamped to the last column and row, weighted by (1-fx)(1-fy),
\* fx(1-fy), (1-fx)fy and fx*fy, rounded to a nearest whole number; it lies
\* between the least and the greatest of the four values and is the source
\* pixel itself when fx = fy = 0.
C22_BilinearInterpolates ==
    QualityScaled => \A i \in TargetPixels : \A c \in 0..2 : Interpolates(i, c)

\* a full RGB frame was scaled with quality 'quality', and a target pixel
\* that falls between source columns and between source rows got a value
\* that is none of its four neighbours'
C22_Witness ==
    /\ QualityScaled
    /\ converter.frame.format = "RGB"
    /\ Size(converter.frame.data) = 3 * converter.frame.width * converter.frame.height
    /\ \E i \in TargetPixels :
          LET sw == converter.frame.width
              sh == converter.frame.height
              bw == converter.bufferWidth
              bh == converter.bufferHeight
              x0 == ((i % bw) * sw) \div bw
              y0 == ((i \div bw) * sh) \div bh
          IN  /\ ((i % bw) * sw) % bw > 0
              /\ ((i \div bw) * sh) % bh > 0
              /\ x0 + 1 < sw
              /\ y0 + 1 < sh
              /\ converter.output[4 * i] \notin
                    {SourceValue(x0, y0, 0), SourceValue(x0 + 1, y0, 0),
                     SourceValue(x0, y0 + 1, 0), SourceValue(x0 + 1, y0 + 1, 0)}

\* the call of the selector has returned
Selected == selector.phase = "selected"
\* the modes of the list passed in
InputModes == {selector.formats[i] : i \in 1..Len(selector.formats)}
HasMjpeg == \E f \in InputModes : f.format = "MJPEG"
\* the candidate set: the MJPEG modes if any, else all modes
Candidates == IF HasMjpeg THEN {f \in InputModes : f.format = "MJPEG"} ELSE InputModes

\* C23: for every mode list that holds at least one MJPEG mode, and each of
\* the three preferences, selectBestCameraFormat returns an MJPEG mode.
C23_MjpegPreferred ==
    Selected /\ HasMjpeg => selector.result.format = "MJPEG"

\* the list held a YUYV mode larger than every MJPEG mode, the preference was
\* highest, and an MJPEG mode was returned
C23_Witness ==
    /\ Selected
    /\ selector.pref = "highest"
    /\ selector.result.format = "MJPEG"
    /\ \E g \in InputModes :
          /\ g.format = "YUYV"
          /\ \A f \in InputModes : f.format = "MJPEG" => Area(g) > Area(f)

\* C24: selectBestCameraFormat returns none exactly when the list is empty;
\* for a non-empty list it returns one of the modes of the list.
C24_ResultIsInputMode ==
    Selected =>
        /\ selector.result = NoFormat <=> Len(selector.formats) = 0
        /\ Len(selector.formats) > 0 => selector.result \in InputModes

\* a mode other than the first of a list of several was returned
C24_Witness ==
    /\ Selected
    /\ Len(selector.formats) > 1
    /\ selector.result \in InputModes
    /\ selector.result # selector.formats[1]

\* C25: with preference highest the returned mode has the greatest
\* width * height of the candidate set, and of the candidates of that area
\* the greatest frame rate.
C25_HighestPicksLargest ==
    Selected /\ selector.pref = "highest" /\ Len(selector.formats) > 0 =>
        /\ selector.result \in Candidates
        /\ \A f \in Candidates :
              /\ Area(f) <= Area(selector.result)
              /\ Area(f) = Area(selector.result)
                   => f.frameRate <= selector.result.frameRate

\* with preference highest, the list began with a candidate of the greatest
\* area and a lower frame rate than the mode returned
C25_Witness ==
    /\ Selected
    /\ selector.pref = "highest"
    /\ Len(selector.formats) > 1
    /\ selector.formats[1] \in Candidates
    /\ Area(selector.formats[1]) = Area(selector.result)
    /\ selector.formats[1].frameRate < selector.result.frameRate
    /\ \E f \in Candidates : Area(f) < Area(selector.result)

\* C26: with preference lowest the returned mode has the least
\* width * height of the candidate set, and of the candidates of that area
\* the greatest frame rate.
C26_LowestPicksSmallest ==
    Selected /\ selector.pref = "lowest" /\ Len(selector.formats) > 0 =>
        /\ selector.result \in Candidates
        /\ \A f \in Candidates :
              /\ Area(f) >= Area(selector.result)
              /\ Area(f) = Area(selector.result)
                   => f.frameRate <= selector.result.frameRate

\* with preference lowest, the list began with a larger candidate and held
\* a candidate of the least area and a lower frame rate than the mode returned
C26_Witness ==
    /\ Selected
    /\ selector.pref = "lowest"
    /\ selector.formats # <<>>
    /\ selector.formats[1] \in Candidates
    /\ Area(selector.formats[1]) > Area(selector.result)
    /\ \E f \in Candidates : /\ Area(f) = Area(selector.result)
                             /\ f.frameRate < selector.result.frameRate

\* the distance of a mode from 1280 * 720, counted in pixels
MediumDistance(f) == Abs(Area(f) - 1280 * 720)

\* C27: with preference medium the returned mode has the least
\* |width * height - 1280 * 720| of the candidate set, and of the candidates
\* at that distance the greatest frame rate.
C27_MediumPicksClosest ==
    Selected /\ selector.pref = "medium" /\ Len(selector.formats) > 0 =>
        /\ selector.result \in Candidates
        /\ \A f \in Candidates :
              /\ MediumDistance(f) >= MediumDistance(selector.result)
              /\ MediumDistance(f) = MediumDistance(selector.result)
                   => f.frameRate <= selector.result.frameRate

\* with preference medium, the list began with a larger candidate than the
\* mode returned and held a candidate of the same size and a lower frame rate
C27_Witness ==
    /\ Selected
    /\ selector.pref = "medium"
    /\ selector.formats # <<>>
    /\ selector.formats[1] \in Candidates
    /\ Area(selector.formats[1]) > Area(selector.result)
    /\ \E f \in Candidates : /\ Area(f) = Area(selector.result)
                             /\ f.frameRate < selector.result.frameRate

\* C28: selectBestCameraFormat has no side effect: after the call the
\* caller's list holds the same modes in the same order as before it.
C28_ListUnchanged ==
    Selected => selector.after = selector.formats

\* the capture timer i is due and its cycle will reach the device: none of
\* the guards of captureFrame returns early (camera-api.ts:251-267)
CycleRuns(i) ==
    /\ IsNextDue(timers, i)
    /\ timers[i].kind = "capture"
    /\ isStreaming /\ ~disposed /\ ~captureInProgress
    /\ activeCamera # NULL /\ activeCamera \in devOpen
    /\ frameCallback # NULL
\* the outcome of a cycle whose native captureFrame() throws
CaptureError == [EmptyFrame EXCEPT !.res = "throw"]

\* C29: a cycle whose frame is captured but fails to decode is counted like a
\* cycle whose capture fails: it leaves the consecutive error count, and the
\* streaming flag, as a capture error in its place would have left them.
C29_DecodeFailureCounted ==
    \A i \in 1..Len(timers) :
       CycleRuns(i) =>
          \A o \in CaptureOutcomes :
             DecodeFailed(o) /\ o.cbres = "ok" =>
                LET r == capture(TimerFired(i), o, 0)
                    e == capture(TimerFired(i), CaptureError, 0)
                IN  /\ r.consecutiveErrors = e.consecutiveErrors
                    /\ r.isStreaming = e.isStreaming

\* a frame was captured, decoded where it needed decoding, and delivered
CycleSucceeds(o) ==
    /\ o.probe = "ok" /\ o.res = "frame" /\ o.len > 0
    /\ ~DecodeFailed(o)
    /\ o.cbres = "ok"

\* C30: the consecutive error count is 0 after every cycle that captures and
\* decodes a frame, and is one more than before after every cycle that ends
\* in a capture error; it counts the failed cycles since the last successful
\* one, so a cycle that fails in decoding raises it by one as well.
C30_CountsFailuresSinceSuccess ==
    \A i \in 1..Len(timers) :
       CycleRuns(i) =>
          \A o \in CaptureOutcomes :
             LET r == capture(TimerFired(i), o, 0)
             IN  /\ CycleSucceeds(o) => r.consecutiveErrors = 0
                 /\ o = CaptureError => r.consecutiveErrors = consecutiveErrors + 1
                 /\ DecodeFailed(o) /\ o.cbres = "ok"
                      => r.consecutiveErrors = consecutiveErrors + 1

\* a frame was captured and decoded, and the frame callback threw
RenderFails(o) ==
    /\ o.probe = "ok" /\ o.res = "frame" /\ o.len > 0
    /\ ~DecodeFailed(o)
    /\ o.cbres = "throw"

\* C31: a cycle whose capture and decode succeed and whose frame callback
\* throws is not counted as an error: after it the consecutive error count
\* is 0, the session is streaming and the next cycle is scheduled.
C31_RenderFailureNotCounted ==
    \A i \in 1..Len(timers) :
       CycleRuns(i) =>
          \A o \in CaptureOutcomes :
             RenderFails(o) /\ CallbackMayThrow(o) =>
                LET r == capture(TimerFired(i), o, 0)
                IN  /\ r.consecutiveErrors = 0
                    /\ r.isStreaming
                    /\ r.timers[Len(r.timers)].kind = "capture"

\* the frame callback has been given the frame
Delivered == decoder.phase = "delivered"

CycleOf(i, o) ==
    IF timers[i].kind = "capture"
    THEN capture(TimerFired(i), o, 0)
    ELSE stabilized(TimerFired(i), NULL, o, 0)

\* C33: no frame is captured from the device before the stabilization delay
\* of the latest startStream() that opened the stream has elapsed: whenever a
\* timer callback captures a frame, no stabilization timer is still waiting
\* for its delay to pass.
C33_NoCaptureBeforeStabilized ==
    \A i \in 1..Len(timers) :
       IsNextDue(timers, i) /\ timers[i].kind \in {"capture", "stab"} =>
          \A o \in CycleOutcomes :
             CaptureOps(CycleOf(i, o)) # {} =>
                \A j \in 1..Len(timers) :
                   timers[j].kind = "stab" /\ j # i => timers[j].rem <= 0

\* C34: when the stabilization delay of a streaming session ends and the
\* device's frame rate cannot be queried, the session is paced at the default
\* 30 Hz, whatever an earlier session used; when it can be queried, at the
\* queried rate.  (Stated for a session whose stabilization timer is the only
\* stabilization or next-cycle timer pending.)
C34_DefaultPacing ==
    \A i \in 1..Len(timers) :
       (/\ IsNextDue(timers, i)
        /\ timers[i].kind = "stab"
        /\ \A j \in 1..Len(timers) : timers[j].kind \in {"stab", "capture"} => j = i
        /\ isStreaming /\ activeCamera # NULL) =>
          \A o \in CycleOutcomes :
             /\ stabilized(TimerFired(i), NULL, o, 0).targetFps = DefaultFps
             /\ \A rate \in FrameRates :
                   stabilized(TimerFired(i), rate, o, 0).targetFps = rate

\* C35 as claimed: any two error entries the capture loop writes are at
\* least 5000 ms apart, and an error that occurs 5000 ms or more after the
\* last logged one is logged.
C35_EntriesThrottled ==
    /\ errlog.prev # NoEntry => errlog.entry.at - errlog.prev.at >= errorLogInterval
    /\ errlog.err.seen /\ errlog.err.waited >= errorLogInterval => errlog.err.logged

\* C35 amended: any two entries written for capture or decode errors are at
\* least 5000 ms apart, an error is logged exactly when it occurs 5000 ms or
\* more after the last one logged, and the only other entry of the loop is
\* the notice of its self-stop.
C35_ErrorEntriesThrottled ==
    /\ errlog.tPrev # NoEntry => errlog.tEntry.at - errlog.tPrev.at >= errorLogInterval
    /\ errlog.err.seen => (errlog.err.logged <=> errlog.err.waited >= errorLogInterval)
    /\ errlog.entry # errlog.tEntry => errlog.entry.kind = "selfstop"

\* errors were logged exactly 5000 ms apart, and an error 4999 ms after a
\* logged one was not
C35_Witness ==
    /\ errlog.tPrev # NoEntry
    /\ errlog.tEntry.at - errlog.tPrev.at = errorLogInterval
    /\ errlog.err.waited = errorLogInterval - 1
    /\ ~errlog.err.logged

\* C36: a deferred close that fires after the stream was started again (the
\* restart came within the grace window of the stopStream() that scheduled
\* it) leaves the new session alone: the stream of the active camera is
\* still open and the frame callback is still registered.
C36_GraceRestartUnharmed ==
    (last.op = "deferredClose" /\ isStreaming) =>
        /\ frameCallback # NULL
        /\ activeCamera \in devOpen

\* the pending timers that belong to a capture loop: stabilization timers
\* and next-cycle timers
CaptureTimers == {i \in 1..Len(timers) : timers[i].kind \in {"stab", "capture"}}

\* C37: at any time at most one stabilization or next-cycle timer is
\* pending, so at most one capture chain is running.
C37_OneCaptureTimer == Cardinality(CaptureTimers) <= 1

\* C38: a session that startStream() has just started has a consecutive
\* error count of 0, and the count never exceeds the threshold.
C38_FreshErrorCount ==
    /\ (last.op = "startStream" /\ last.ret = "true") => consecutiveErrors = 0
    /\ consecutiveErrors <= maxConsecutiveErrors

\* C39: whenever the session is not streaming once a handler has returned,
\* the streaming flag WebcamManager keeps in the settings store is false.
C39_StoredFlagFollowsLoop == ~isStreaming => ~cfgStreaming

\* C40: after restore() was called on a minimized or maximized window, the
\* window is in the normal state, visible, and at the bounds it had when it
\* was last in the normal state.
C40_RestoreReturnsToNormal ==
    (window.op = "restore" /\ window.from # "normal") =>
        /\ window.currentState = "normal"
        /\ window.visible
        /\ getBounds(window) = window.normalBounds
====
